---- MODULE Spec2Model ----
(***************************************************************************)
(* A model of src/Main.jsx (CryptoEMACalculator):                          *)
(*   - fetchWithRetry, the retry loop around the HTTP GET    (SpecFetch)   *)
(*   - calculateEMA, the stored EMA results, getPricePosition and the      *)
(*     Signal Summary tally                                  (SpecEMA)     *)
(*   - the component's state with overlapping fetchMarketData invocations  *)
(*                                                           (SpecUI)      *)
(* JavaScript numbers are modelled as exact rationals (records with a      *)
(* numerator and a positive denominator in lowest terms); null is its own  *)
(* value.  Delays are whole milliseconds.                                   *)
(***************************************************************************)
EXTENDS Integers, Sequences, FiniteSets, TLC

VARIABLES
    \* ---- fetchWithRetry (one call) ----
    retries,      \* parameter `retries`
    backoff,      \* parameter `backoff`
    i,            \* the loop index
    pc,           \* "fetch" | "delay429" | "delayCatch" | "done"
    pendingMs,    \* the argument of the delay() being awaited
    outcome,      \* how the call ended: pending / returned / undefined / thrown
    log,          \* history: the requests, responses, throws and sleeps so far
    \* ---- the component CryptoEMACalculator ----
    mounted,      \* whether the first render and its effects have run
    cryptocurrency, cryptoId, cryptoSymbol, timeframe,   \* lines 29-32
    loading,      \* line 33
    error,        \* line 34
    marketData,   \* line 35
    emaResults,   \* line 36
    autoRefresh,  \* line 41
    view,         \* what the latest render shows
    inflight,     \* the fetchMarketData invocations awaiting fetchWithRetry
    \* ---- history of the component ----
    nextId,       \* the number of invocations that have reached the fetch
    writes,       \* the invocations that stored results, in the order they did
    dataFor,      \* the coin id in the URL of the fetch that marketData came from
    sel,          \* the last selectCoin, and whether every fetch since succeeded
    hist,         \* the stored and probed EMAs before the latest stored series
    probePeriod,  \* a period calculateEMA is also applied with
    probeEma      \* calculateEMA(prices of marketData, probePeriod)

fetchVars == <<retries, backoff, i, pc, pendingMs, outcome, log>>

compVars == <<mounted, cryptocurrency, cryptoId, cryptoSymbol, timeframe, loading,
              error, marketData, emaResults, autoRefresh, view, inflight>>

histVars == <<nextId, writes, dataFor, sel, hist, probePeriod, probeEma>>

vars == <<fetchVars, compVars, histVars>>

----------------------------------------------------------------------------
\* Bounds of the model

MaxRetries == 3
MaxInvocations == 3
MaxLen == 4
MaxAppend == 1
MaxPeriod == 3

----------------------------------------------------------------------------
\* JavaScript values

Null == [t |-> "null"]

RECURSIVE GCD(_, _)
GCD(a, b) == IF b = 0 THEN a ELSE GCD(b, a % b)

Abs(x) == IF x < 0 THEN -x ELSE x

\* the number n/d, in lowest terms with a positive denominator
Rat(n, d) ==
    LET g == GCD(Abs(n), Abs(d))
        s == IF d < 0 THEN -1 ELSE 1
    IN  [t |-> "num", n |-> (s * n) \div g, d |-> (s * d) \div g]

Num(n) == Rat(n, 1)

\* x + y and x - y, over the least common denominator
RAdd(x, y) ==
    LET g == GCD(x.d, y.d)
    IN  Rat(x.n * (y.d \div g) + y.n * (x.d \div g), (x.d \div g) * y.d)
RSub(x, y) == RAdd(x, Rat(-y.n, y.d))
RMul(x, y) == Rat(x.n * y.n, x.d * y.d)
RDiv(x, y) == Rat(x.n * y.d, x.d * y.n)
RGt(x, y)  == x.n * y.d > y.n * x.d
RLt(x, y)  == x.n * y.d < y.n * x.d

\* !v for v a number or null: null and 0 are falsy
Falsy(v) == v = Null \/ (v.t = "num" /\ v.n = 0)

RECURSIVE Pow2(_)
Pow2(e) == IF e = 0 THEN 1 ELSE 2 * Pow2(e - 1)

----------------------------------------------------------------------------
\* fetchWithRetry

DefaultRetries == 3
DefaultBackoff == 1000

\* response.headers.get('Retry-After'): null, or the header's text (here a
\* string of decimal digits, kept as the sequence of its digits)
NoHeader == [present |-> FALSE, digits |-> <<>>]
Header(ds) == [present |-> TRUE, digits |-> ds]
RetryAfterHeaders == {NoHeader, Header(<<>>), Header(<<0>>), Header(<<2>>), Header(<<1, 0>>)}

\* ToNumber of a string of decimal digits ("" is 0)
RECURSIVE ToNumber(_)
ToNumber(ds) ==
    IF ds = <<>> THEN 0
    ELSE 10 * ToNumber(SubSeq(ds, 1, Len(ds) - 1)) + ds[Len(ds)]

\* a string is falsy exactly when it is empty; null is falsy
HeaderFalsy(h) == ~h.present \/ h.digits = <<>>

\* line 13: response.headers.get('Retry-After') || backoff * Math.pow(2, i)
RetryAfter(h, b, at) == IF HeaderFalsy(h) THEN b * Pow2(at) ELSE ToNumber(h.digits)

\* a backoff that starts one doubling too far
CatchBackoffShifted(b, at) == b * Pow2(at + 1)

\* line 23: backoff * Math.pow(2, i)
CatchBackoff(b, at) == b * Pow2(at)

ErrorStatuses == {404, 500}

Ev(e, at, st, hdr, ms) == [e |-> e, at |-> at, st |-> st, hdr |-> hdr, ms |-> ms]

Pending == [kind |-> "pending", err |-> "none", st |-> 0]
Returned == [kind |-> "returned", err |-> "none", st |-> 0]
ReturnedUndefined == [kind |-> "undefined", err |-> "none", st |-> 0]
Thrown(err, st) == [kind |-> "thrown", err |-> err, st |-> st]

InitFetch ==
    /\ retries \in 1..MaxRetries
    /\ backoff \in {DefaultBackoff, 250}
    /\ i = 0
    /\ pc = "fetch"
    /\ pendingMs = 0
    /\ outcome = Pending
    /\ log = <<>>

\* lines 21-24: the catch block, entered with the error `err` thrown in the
\* try block of attempt i, after the events `evs` of that attempt
Catch(evs, err, st) ==
    /\ log' = log \o evs \o <<Ev("throw", i, st, NoHeader, 0)>>
    /\ IF i = retries - 1
       THEN /\ outcome' = Thrown(err, st)
            /\ pc' = "done"
            /\ pendingMs' = pendingMs
       ELSE /\ pendingMs' = CatchBackoff(backoff, i)
            /\ pc' = "delayCatch"
            /\ outcome' = outcome
    /\ UNCHANGED <<retries, backoff, i>>
    /\ UNCHANGED <<compVars, histVars>>

\* line 10: fetch(url) rejects (no response)
FetchRejects ==
    /\ pc = "fetch"
    /\ Catch(<<Ev("get", i, 0, NoHeader, 0)>>, "NetworkError", 0)

\* lines 11-15: the response has status 429
Respond429(h) ==
    /\ pc = "fetch"
    /\ log' = log \o <<Ev("get", i, 0, NoHeader, 0), Ev("resp", i, 429, h, 0)>>
    /\ pendingMs' = RetryAfter(h, backoff, i) * 1000
    /\ pc' = "delay429"
    /\ UNCHANGED <<retries, backoff, i, outcome>>
    /\ UNCHANGED <<compVars, histVars>>

\* lines 17-19: the response is another non-success
RespondHttpError(st) ==
    /\ pc = "fetch"
    /\ Catch(<<Ev("get", i, 0, NoHeader, 0), Ev("resp", i, st, NoHeader, 0)>>, "HttpError", st)

\* line 20: the response is a success and its body parses
RespondOk ==
    /\ pc = "fetch"
    /\ log' = log \o <<Ev("get", i, 0, NoHeader, 0), Ev("resp", i, 200, NoHeader, 0)>>
    /\ outcome' = Returned
    /\ pc' = "done"
    /\ UNCHANGED <<retries, backoff, i, pendingMs>>
    /\ UNCHANGED <<compVars, histVars>>

\* line 20: the response is a success and response.json() rejects
RespondBadJson ==
    /\ pc = "fetch"
    /\ Catch(<<Ev("get", i, 0, NoHeader, 0), Ev("resp", i, 200, NoHeader, 0)>>, "SyntaxError", 200)

\* lines 14 and 23: the delay elapses; line 8: i++ and the loop test; line 26:
\* the loop ends and the function returns undefined
DelayElapsed ==
    /\ pc \in {"delay429", "delayCatch"}
    /\ log' = Append(log, Ev("sleep", i, 0, NoHeader, pendingMs))
    /\ i' = i + 1
    /\ IF i + 1 < retries
       THEN pc' = "fetch" /\ outcome' = outcome
       ELSE pc' = "done" /\ outcome' = ReturnedUndefined
    /\ UNCHANGED <<retries, backoff, pendingMs>>
    /\ UNCHANGED <<compVars, histVars>>

NextFetch ==
    \/ FetchRejects
    \/ \E h \in RetryAfterHeaders : Respond429(h)
    \/ \E st \in ErrorStatuses : RespondHttpError(st)
    \/ RespondOk
    \/ RespondBadJson
    \/ DelayElapsed

----------------------------------------------------------------------------
\* calculateEMA, the stored results and the rendered summary

emaPeriods == <<7, 9, 20, 25, 50, 100, 200>>
PeriodSet == {emaPeriods[j] : j \in DOMAIN emaPeriods}

\* The two loops run their iterations in index order on an accumulator.  The
\* iterations lo .. hi-1 (0-based, as in the source) are those of lo .. mid-1
\* followed by those of mid .. hi-1, which keeps the evaluation shallow; the
\* accumulator left by the first half is a number (IsNumber evaluates it)
\* before the second half starts from it.

IsNumber(v) == v.t = "num" /\ v.d > 0

\* lines 104-106: for (i = lo; i < hi; i++) sum += prices[i]
RECURSIVE SumLoop(_, _, _, _)
SumLoop(prices, lo, hi, sum) ==
    IF lo >= hi THEN sum
    ELSE IF hi = lo + 1 THEN RAdd(sum, prices[lo + 1])
    ELSE LET mid == (lo + hi) \div 2
             left == SumLoop(prices, lo, mid, sum)
         IN  IF IsNumber(left) THEN SumLoop(prices, mid, hi, left) ELSE left

\* lines 108-110: for (i = lo; i < hi; i++) ema = prices[i] * k + ema * (1 - k)
RECURSIVE SmoothLoop(_, _, _, _, _)
SmoothLoop(prices, lo, hi, k, ema) ==
    IF lo >= hi THEN ema
    ELSE IF hi = lo + 1
    THEN RAdd(RMul(prices[lo + 1], k), RMul(ema, RSub(Num(1), k)))
    ELSE LET mid == (lo + hi) \div 2
             left == SmoothLoop(prices, lo, mid, k, ema)
         IN  IF IsNumber(left) THEN SmoothLoop(prices, mid, hi, k, left) ELSE left

\* a smoothing constant without the + 1
SmoothingOverPeriod(period) == RDiv(Num(2), Num(period))

\* line 102
Smoothing(period) == RDiv(Num(2), Num(period + 1))

\* an EMA that also gives up on a series of exactly `period` prices
calculateEMAStrict(prices, period) ==
    IF Len(prices) <= period THEN Null
    ELSE SmoothLoop(prices, period, Len(prices), Smoothing(period),
                    RDiv(SumLoop(prices, 0, period, Num(0)), Num(period)))

\* lines 100-112
calculateEMA(prices, period) ==
    IF Len(prices) < period THEN Null
    ELSE SmoothLoop(prices, period, Len(prices), Smoothing(period),
                    RDiv(SumLoop(prices, 0, period, Num(0)), Num(period)))

\* line 141
StoredEma(prices, period) ==
    IF Len(prices) >= period THEN calculateEMA(prices, period) ELSE Null

\* line 36: useState({}); an absent field reads as undefined, which is falsy
\* like the empty symbol here.  The emas of {} are never read (line 318).
NoResults ==
    [symbol |-> "", name |-> "", timeframe |-> "", currentPrice |-> Null,
     emas |-> [P \in PeriodSet |-> Null]]

\* lines 133-136
PriceData(dataPrices) ==
    [j \in DOMAIN dataPrices |-> [timestamp |-> dataPrices[j][1], price |-> dataPrices[j][2]]]

\* line 138
Prices(priceData) == [j \in DOMAIN priceData |-> priceData[j].price]

\* lines 138-151 (lastUpdated, a clock reading, is left out)
BuildResults(priceData, symbol, name, tf) ==
    LET prices == Prices(priceData)
    IN  [symbol |-> symbol, name |-> name, timeframe |-> tf,
         currentPrice |-> prices[Len(prices)],
         emas |-> [P \in PeriodSet |-> StoredEma(prices, P)]]

\* lines 176-181
getPricePosition(price, ema) ==
    IF Falsy(ema) THEN "unknown"
    ELSE IF RGt(price, ema) THEN "above"
    ELSE IF RLt(price, ema) THEN "below"
    ELSE "equal"

\* lines 371-381: the counting loop over emaPeriods
RECURSIVE CountLoop(_, _, _)
CountLoop(res, idx, acc) ==
    IF idx > Len(emaPeriods) THEN acc
    ELSE LET emaValue == res.emas[emaPeriods[idx]]
         IN  IF Falsy(emaValue) THEN CountLoop(res, idx + 1, acc)
             ELSE IF RGt(res.currentPrice, emaValue)
                  THEN CountLoop(res, idx + 1, [acc EXCEPT !.bullish = @ + 1])
             ELSE IF RLt(res.currentPrice, emaValue)
                  THEN CountLoop(res, idx + 1, [acc EXCEPT !.bearish = @ + 1])
             ELSE CountLoop(res, idx + 1, acc)

\* lines 384-392
SignalLabel(bullishPercentage) ==
    IF RGt(bullishPercentage, Num(60)) THEN "Bullish"
    ELSE IF RLt(bullishPercentage, Num(40)) THEN "Bearish"
    ELSE "Neutral"

\* lines 370-392
SignalSummary(res) ==
    LET counts == CountLoop(res, 1, [bullish |-> 0, bearish |-> 0])
        totalSignals == counts.bullish + counts.bearish
        bullishPercentage ==
            IF totalSignals > 0
            THEN RMul(RDiv(Num(counts.bullish), Num(totalSignals)), Num(100))
            ELSE Num(0)
    IN  [bullishCount |-> counts.bullish, bearishCount |-> counts.bearish,
         totalSignals |-> totalSignals, bullishPercentage |-> bullishPercentage,
         overallSignal |-> SignalLabel(bullishPercentage)]

NoSummary ==
    [bullishCount |-> 0, bearishCount |-> 0, totalSignals |-> 0,
     bullishPercentage |-> Num(0), overallSignal |-> ""]

\* lines 302-308 and 318-419: what a render shows of the state
Render(res, isLoading, id) ==
    [buttonDisabled |-> (isLoading \/ id = ""),
     shown |-> (res.symbol # ""),
     positions |-> [P \in PeriodSet |->
                      IF res.symbol # ""
                      THEN getPricePosition(res.currentPrice, res.emas[P])
                      ELSE "unknown"],
     summary |-> IF res.symbol # "" THEN SignalSummary(res) ELSE NoSummary]

----------------------------------------------------------------------------
\* The component: its state, fetchMarketData and the handlers

\* lines 47-55
timeframes == <<
    [value |-> "1h",  days |-> "3",   interval |-> "minutely"],
    [value |-> "4h",  days |-> "7",   interval |-> "hourly"],
    [value |-> "12h", days |-> "14",  interval |-> "hourly"],
    [value |-> "1d",  days |-> "30",  interval |-> "hourly"],
    [value |-> "7d",  days |-> "90",  interval |-> "daily"],
    [value |-> "30d", days |-> "180", interval |-> "daily"],
    [value |-> "max", days |-> "max", interval |-> "daily"] >>

\* line 123: timeframes.find(tf => tf.value === timeframe); 0 for undefined
RECURSIVE FindTimeframe(_, _)
FindTimeframe(idx, v) ==
    IF idx > Len(timeframes) THEN 0
    ELSE IF timeframes[idx].value = v THEN idx
    ELSE FindTimeframe(idx + 1, v)

\* the coins a click in the list can pass to selectCoin (from lines 79-91)
Coins == {
    [id |-> "dogecoin", symbol |-> "DOGE", name |-> "Dogecoin"],
    [id |-> "bitcoin",  symbol |-> "BTC",  name |-> "Bitcoin"] }

\* the timeframes the select is changed to
ChosenTimeframes == {"4h", "1d"}

NoError == [msg |-> "", id |-> ""]
PleaseSelect == [msg |-> "Please select a cryptocurrency", id |-> ""]
GenericFailure == [msg |-> "Failed to fetch data from CoinGecko", id |-> ""]
RateLimited == [msg |-> "Rate limit exceeded", id |-> ""]
NotFound(id) == [msg |-> "Cryptocurrency not found", id |-> id]

\* the values a fetchMarketData closure holds (line 164)
Closure(id, symbol, name, tf) ==
    [cryptoId |-> id, cryptoSymbol |-> symbol, cryptocurrency |-> name, timeframe |-> tf]

CurrentClosure == Closure(cryptoId, cryptoSymbol, cryptocurrency, timeframe)

\* line 128
ApiUrl(id, tf) == [coin |-> id, days |-> tf.days, interval |-> tf.interval]

\* lines 116-129: fetchMarketData up to its await, on the pending state
\* s = [loading, error, inflight, nextId], with the closure c
Begin(s, c) ==
    IF c.cryptoId = ""
    THEN [s EXCEPT !.error = PleaseSelect]
    ELSE IF FindTimeframe(1, c.timeframe) = 0
    THEN [s EXCEPT !.loading = FALSE, !.error = GenericFailure]
    ELSE [s EXCEPT !.loading = TRUE,
                   !.error = NoError,
                   !.nextId = @ + 1,
                   !.inflight = Append(@, [id |-> s.nextId + 1, c |-> c,
                       url |-> ApiUrl(c.cryptoId, timeframes[FindTimeframe(1, c.timeframe)])])]

\* lines 167-173: the effect, run after a render whose dependencies changed
Effect(s, c, auto) ==
    IF c.cryptoId # "" /\ c.timeframe # "" /\ auto THEN Begin(s, c) ELSE s

\* the interval of line 170 is set exactly when the effect's condition held
\* at its latest run, and it calls the closure of that render
TimerSet == mounted /\ cryptoId # "" /\ timeframe # "" /\ autoRefresh

PendingState == [loading |-> loading, error |-> error, inflight |-> inflight, nextId |-> nextId]

\* what fetchWithRetry hands to line 129: a body with a prices array, a body
\* without one, undefined (the loop ran out on 429), or an error thrown
Data(series) == [kind |-> "data", prices |-> series, err |-> "none", st |-> 0]
NoPrices == [kind |-> "noprices", prices |-> <<>>, err |-> "none", st |-> 0]
Undefined == [kind |-> "undefined", prices |-> <<>>, err |-> "none", st |-> 0]
Threw(err, st) == [kind |-> "thrown", prices |-> <<>>, err |-> err, st |-> st]

\* line 130 passes
Succeeds(out) == out.kind = "data" /\ Len(out.prices) > 0

\* lines 18, 155, 157: err.message.includes(code); the message of an HTTP
\* error is `HTTP ${status}: ${statusText}`, the others carry no status
MessageIncludes(out, code) == out.kind = "thrown" /\ out.err = "HttpError" /\ out.st = code

\* lines 152-160
FailureMessage(c, out) ==
    IF MessageIncludes(out, 429) THEN RateLimited
    ELSE IF MessageIncludes(out, 404) THEN NotFound(c.cryptoId)
    ELSE GenericFailure

\* line 162: setLoading(false), whatever else is in flight
LoadingAfter(rest) == FALSE

RemoveAt(seq, k) == SubSeq(seq, 1, k - 1) \o SubSeq(seq, k + 1, Len(seq))

\* lines 130-163: the rest of the invocation inv once fetchWithRetry has
\* settled with `out`; `rest` is what stays in flight
Complete(inv, out, rest) ==
    /\ IF Succeeds(out)
       THEN /\ marketData' = PriceData(out.prices)
            /\ emaResults' = BuildResults(PriceData(out.prices), inv.c.cryptoSymbol,
                                          inv.c.cryptocurrency, inv.c.timeframe)
            /\ error' = error
            /\ writes' = Append(writes, inv.id)
            /\ dataFor' = inv.url.coin
       ELSE /\ error' = FailureMessage(inv.c, out)
            /\ UNCHANGED <<marketData, emaResults, writes, dataFor>>
    /\ loading' = LoadingAfter(rest)
    /\ inflight' = rest

InitComponent ==
    /\ mounted = FALSE
    /\ cryptocurrency = "dogecoin"
    /\ cryptoId = "dogecoin"
    /\ cryptoSymbol = "DOGE"
    /\ timeframe = "4h"
    /\ loading = FALSE
    /\ error = NoError
    /\ marketData = <<>>
    /\ emaResults = NoResults
    /\ autoRefresh = TRUE
    /\ view = Render(NoResults, FALSE, "dogecoin")
    /\ inflight = <<>>
    /\ nextId = 0
    /\ writes = <<>>
    /\ dataFor = ""
    /\ sel = [coin |-> "", symbol |-> "", ok |-> TRUE]
    /\ hist = [op |-> "none", appends |-> 0, emas |-> NoResults.emas, probe |-> Null, price |-> Null]
    /\ probeEma = Null

\* the pending state s becomes the state, and the component renders
Commit(s, id) ==
    /\ loading' = s.loading
    /\ error' = s.error
    /\ inflight' = s.inflight
    /\ nextId' = s.nextId
    /\ view' = Render(emaResults, s.loading, id)

\* the first render, then the effect of lines 167-173
Mount ==
    /\ ~mounted
    /\ mounted' = TRUE
    /\ Commit(Effect(PendingState, CurrentClosure, autoRefresh), cryptoId)
    /\ UNCHANGED <<cryptocurrency, cryptoId, cryptoSymbol, timeframe, marketData,
                   emaResults, autoRefresh, writes, dataFor, sel>>
    /\ UNCHANGED <<fetchVars, hist, probePeriod, probeEma>>

\* the series of marketData as the API served it
RawOf(priceData) ==
    [j \in DOMAIN priceData |-> <<priceData[j].timestamp, priceData[j].price>>]

\* the API can serve the stored series with one more point
CanGrow == Len(marketData) < MaxLen \/ hist.appends < MaxAppend

\* line 303: the button, enabled by line 304
Click(allowed) ==
    /\ mounted
    /\ ~view.buttonDisabled
    /\ allowed
    /\ Commit(Begin(PendingState, CurrentClosure), cryptoId)
    /\ UNCHANGED <<mounted, cryptocurrency, cryptoId, cryptoSymbol, timeframe, marketData,
                   emaResults, autoRefresh, writes, dataFor, sel>>
    /\ UNCHANGED <<fetchVars, hist, probePeriod, probeEma>>

ClickCalculate == Click(nextId < MaxInvocations)

Recalculate == Click(CanGrow)

\* line 170: the interval fires
TimerTick ==
    /\ TimerSet
    /\ nextId < MaxInvocations
    /\ Commit(Begin(PendingState, CurrentClosure), cryptoId)
    /\ UNCHANGED <<mounted, cryptocurrency, cryptoId, cryptoSymbol, timeframe, marketData,
                   emaResults, autoRefresh, writes, dataFor, sel>>
    /\ UNCHANGED <<fetchVars, hist, probePeriod, probeEma>>

\* lines 193-199: the three setters, then fetchMarketData() of the render the
\* click happened in; then the render, and the effect if a dependency changed
selectCoin(coin) ==
    /\ mounted
    /\ nextId + 2 <= MaxInvocations
    /\ cryptocurrency' = coin.name
    /\ cryptoId' = coin.id
    /\ cryptoSymbol' = coin.symbol
    /\ LET s1 == Begin(PendingState, CurrentClosure)
           c2 == Closure(coin.id, coin.symbol, coin.name, timeframe)
           s2 == IF c2 # CurrentClosure THEN Effect(s1, c2, autoRefresh) ELSE s1
       IN  Commit(s2, coin.id)
    /\ sel' = [coin |-> coin.id, symbol |-> coin.symbol, ok |-> TRUE]
    /\ UNCHANGED <<mounted, timeframe, marketData, emaResults, autoRefresh, writes, dataFor>>
    /\ UNCHANGED <<fetchVars, hist, probePeriod, probeEma>>

\* line 279: setTimeframe, the render, and the effect if the value changed
SetTimeframe(tf) ==
    /\ mounted
    /\ nextId < MaxInvocations
    /\ timeframe' = tf
    /\ LET c2 == Closure(cryptoId, cryptoSymbol, cryptocurrency, tf)
       IN  Commit(IF tf # timeframe THEN Effect(PendingState, c2, autoRefresh) ELSE PendingState, cryptoId)
    /\ UNCHANGED <<mounted, cryptocurrency, cryptoId, cryptoSymbol, marketData,
                   emaResults, autoRefresh, writes, dataFor, sel>>
    /\ UNCHANGED <<fetchVars, hist, probePeriod, probeEma>>

\* line 295: setAutoRefresh, the render, and the effect
ToggleAutoRefresh ==
    /\ mounted
    /\ nextId < MaxInvocations
    /\ autoRefresh' = ~autoRefresh
    /\ Commit(Effect(PendingState, CurrentClosure, ~autoRefresh), cryptoId)
    /\ UNCHANGED <<mounted, cryptocurrency, cryptoId, cryptoSymbol, timeframe, marketData,
                   emaResults, writes, dataFor, sel>>
    /\ UNCHANGED <<fetchVars, hist, probePeriod, probeEma>>

\* the series the API serves in the component's runs
ServedSeries == {<<>>, << <<1, Num(1)>> >>, << <<1, Num(2)>>, <<2, Num(1)>> >>}

SettledWith ==
    {Data(series) : series \in ServedSeries} \cup {NoPrices, Undefined, Threw("HttpError", 404)}

\* line 129: the fetchWithRetry of the k-th invocation in flight settles, and
\* the invocation runs to its end; then the render
FetchSettles(k, out) ==
    /\ k \in DOMAIN inflight
    /\ Complete(inflight[k], out, RemoveAt(inflight, k))
    /\ view' = Render(emaResults', loading', cryptoId)
    /\ sel' = IF Succeeds(out) THEN sel ELSE [sel EXCEPT !.ok = FALSE]
    /\ IF Succeeds(out)
       THEN LET grown == /\ marketData # <<>>
                         /\ Len(out.prices) = Len(marketData) + 1
                         /\ SubSeq(out.prices, 1, Len(marketData)) = RawOf(marketData)
            IN  /\ hist' = [op |-> IF grown THEN "append" ELSE "load",
                            appends |-> IF grown THEN hist.appends + 1 ELSE 0,
                            emas |-> emaResults.emas,
                            probe |-> probeEma,
                            price |-> out.prices[Len(out.prices)][2]]
                /\ probeEma' = calculateEMA(Prices(PriceData(out.prices)), probePeriod)
       ELSE UNCHANGED <<hist, probeEma>>
    /\ UNCHANGED <<mounted, cryptocurrency, cryptoId, cryptoSymbol, timeframe,
                   autoRefresh, nextId>>
    /\ UNCHANGED <<fetchVars, probePeriod>>

NextUI ==
    \/ Mount
    \/ ClickCalculate
    \/ TimerTick
    \/ \E coin \in Coins : selectCoin(coin)
    \/ \E tf \in ChosenTimeframes : SetTimeframe(tf)
    \/ ToggleAutoRefresh
    \/ \E k \in 1..MaxInvocations, out \in SettledWith : FetchSettles(k, out)

\* the prices of the series served to the EMA runs
PriceVals == {Num(0), Num(1), Num(2)}
LongPairs == {<<Num(0), Num(0)>>, <<Num(0), Num(5)>>, <<Num(5), Num(1)>>}
LongLens == {7, 8, 20, 25, 100, 200, 201}

\* a series of length n: the price c throughout, then the price p
LongSeries(n, c, p) == [j \in 1..n |-> <<j, IF j = n THEN p ELSE c>>]

FirstSeries ==
    {<< <<1, p>> >> : p \in PriceVals}
    \cup {LongSeries(n, cp[1], cp[2]) : n \in LongLens, cp \in LongPairs}

\* the first fetch is served any first series; a later one the stored series
\* with one more point
ServedNext ==
    IF marketData = <<>> THEN {Data(series) : series \in FirstSeries}
    ELSE IF CanGrow
    THEN {Data(Append(RawOf(marketData), <<Len(marketData) + 1, p>>)) : p \in PriceVals}
    ELSE {}

NextEMA ==
    \/ Mount
    \/ Recalculate
    \/ \E out \in ServedNext : FetchSettles(1, out)

----------------------------------------------------------------------------
\* The specifications

InitIdleFetch ==
    /\ retries = DefaultRetries
    /\ backoff = DefaultBackoff
    /\ i = 0
    /\ pc = "fetch"
    /\ pendingMs = 0
    /\ outcome = Pending
    /\ log = <<>>

InitSpecFetch == InitFetch /\ InitComponent /\ probePeriod = 1

SpecFetch == InitSpecFetch /\ [][NextFetch]_vars

InitSpecUI == InitIdleFetch /\ InitComponent /\ probePeriod = 1

SpecUI == InitSpecUI /\ [][NextUI]_vars

InitSpecEMA == InitIdleFetch /\ InitComponent /\ probePeriod \in 1..MaxPeriod

SpecEMA == InitSpecEMA /\ [][NextEMA]_vars

----------------------------------------------------------------------------
\* Properties of fetchWithRetry

Gets == {j \in DOMAIN log : log[j].e = "get"}
Sleeps == {j \in DOMAIN log : log[j].e = "sleep"}
Responses == {j \in DOMAIN log : log[j].e = "resp"}

\* C1: a response whose status is a non-success other than 429 ends the call
\* at once with the HTTP error of that attempt: nothing follows it but the
\* throw, no sleep and no further GET, whatever the attempt index.
C1_HttpErrorNotRetried ==
    \A j \in Responses :
        (log[j].st \in ErrorStatuses) =>
            /\ Len(log) = j + 1
            /\ pc = "done"
            /\ outcome = Thrown("HttpError", log[j].st)

\* C2: when every attempt received 429 with Retry-After: 2, each sleep lasted
\* at least 2000 ms and the call, once over, has thrown to its caller.
C2_RateLimitedThrows ==
    ( /\ pc = "done"
      /\ Cardinality(Responses) = retries
      /\ \A j \in Responses : log[j].st = 429 /\ log[j].hdr = Header(<<2>>) )
    => ( /\ \A j \in Sleeps : log[j].ms >= 2000
         /\ outcome.kind = "thrown" )

\* C3: an error thrown during attempt a < retries-1 is followed by a sleep of
\* exactly backoff * 2^a ms and then by the GET of attempt a+1; an error
\* thrown during attempt retries-1 ends the call with that error, with no
\* sleep or request after it; at most `retries` GETs are issued.
C3_BackoffThenRetry ==
    /\ Cardinality(Gets) <= retries
    /\ \A j \in DOMAIN log :
        (log[j].e = "throw") =>
            LET a == log[j].at IN
            IF a < retries - 1
            THEN /\ (j = Len(log)) => (pc = "delayCatch" /\ pendingMs = backoff * Pow2(a))
                 /\ (j < Len(log)) => log[j + 1] = Ev("sleep", a, 0, NoHeader, backoff * Pow2(a))
                 /\ (j + 1 = Len(log)) => (pc = "fetch" /\ i = a + 1)
                 /\ (j + 1 < Len(log)) => (log[j + 2].e = "get" /\ log[j + 2].at = a + 1)
            ELSE /\ j = Len(log)
                 /\ pc = "done"
                 /\ outcome.kind = "thrown"

\* every attempt of a call with three attempts threw: two backoff sleeps, the
\* second twice the first, and the last error reached the caller
C3_Witness ==
    /\ retries = 3
    /\ pc = "done"
    /\ outcome.kind = "thrown"
    /\ Cardinality(Gets) = 3
    /\ \E j, k \in Sleeps : log[j].ms = backoff /\ log[k].ms = 2 * backoff
    /\ \A j \in Responses : log[j].st # 429

----------------------------------------------------------------------------
\* Properties of the component under overlapping fetches (SpecUI)

\* C5: the result of an invocation that started earlier never overwrites
\* marketData and emaResults after a later-started invocation stored its
\* result: results are stored in the order the invocations started.
C5_StaleResultDiscarded ==
    \A j, k \in DOMAIN writes : (j < k) => (writes[j] < writes[k])

\* C9: after selectCoin(coin), once nothing is in flight and every fetch
\* since has succeeded, the stored series was fetched for coin.id and
\* emaResults.symbol is coin.symbol.
C9_SelectedCoinShown ==
    (sel.coin # "" /\ sel.ok /\ inflight = <<>>)
    => (dataFor = sel.coin /\ emaResults.symbol = sel.symbol)

\* C10: while an invocation is in flight, loading is true and the
\* 'Calculate EMAs' button is disabled.
C10_LoadingWhileInFlight ==
    (inflight # <<>>) => (loading /\ view.buttonDisabled)

----------------------------------------------------------------------------
\* Properties of the EMA results (SpecEMA)

StoredPrices == Prices(marketData)

RECURSIVE SumOf(_)
SumOf(seq) ==
    IF seq = <<>> THEN Num(0)
    ELSE IF Len(seq) = 1 THEN seq[1]
    ELSE LET h == Len(seq) \div 2
         IN  RAdd(SumOf(SubSeq(seq, 1, h)), SumOf(SubSeq(seq, h + 1, Len(seq))))

MeanOf(seq) == RDiv(SumOf(seq), Num(Len(seq)))

\* p * k + e * (1 - k) with k = 2 / (P + 1)
Smoothed(p, e, P) ==
    RAdd(RMul(p, Rat(2, P + 1)), RMul(e, RSub(Num(1), Rat(2, P + 1))))

\* C4: when results are shown and every EMA in them is absent, the summary
\* has bullishPercentage = 0 and the label Neutral.
C4_AllAbsentNeutral ==
    (view.shown /\ \A P \in PeriodSet : emaResults.emas[P] = Null)
    => ( /\ view.summary.bullishPercentage = Num(0)
         /\ view.summary.overallSignal = "Neutral" )

\* C6: the EMA for a period P is absent exactly when the series is shorter
\* than P, for calculateEMA (the probed period) and for every stored entry
\* emas[P] of the periods 7, 9, 20, 25, 50, 100, 200.
C6_AbsentIffShort ==
    /\ (probeEma = Null) <=> (Len(marketData) < probePeriod)
    /\ \A P \in PeriodSet : (emaResults.emas[P] = Null) <=> (Len(marketData) < P)

\* a series of 20 to 24 points is stored: the EMAs of 7, 9 and 20 are
\* present, those of 25 and more absent
C6_Witness ==
    /\ view.shown
    /\ Len(marketData) >= 20
    /\ emaResults.emas[20] # Null
    /\ emaResults.emas[25] = Null
    /\ probeEma # Null

\* C7: the position shown for an EMA is unknown exactly when the EMA is
\* absent; for a present EMA, 0 included, it is above when the current price
\* is greater, below when it is smaller, and equal otherwise.
C7_PositionClassified ==
    view.shown =>
        \A P \in PeriodSet :
            LET e == emaResults.emas[P]
                pos == view.positions[P]
            IN  /\ (pos = "unknown") <=> (e = Null)
                /\ (e # Null) =>
                     pos = IF RGt(emaResults.currentPrice, e) THEN "above"
                           ELSE IF RLt(emaResults.currentPrice, e) THEN "below"
                           ELSE "equal"

\* C8: when the stored series S is replaced by S with one more price p, the
\* EMA of every period P <= length(S) becomes p * k + (the EMA of S) * (1 - k)
\* with k = 2 / (P + 1); and the EMA of a series of exactly P prices is their
\* arithmetic mean.
C8_IncrementalUpdate ==
    /\ (hist.op = "append") =>
         /\ (Len(marketData) - 1 >= probePeriod)
              => probeEma = Smoothed(hist.price, hist.probe, probePeriod)
         /\ \A P \in PeriodSet :
              (Len(marketData) - 1 >= P)
                => emaResults.emas[P] = Smoothed(hist.price, hist.emas[P], P)
    /\ (Len(marketData) = probePeriod) => probeEma = MeanOf(StoredPrices)
    /\ \A P \in PeriodSet :
         (Len(marketData) = P) => emaResults.emas[P] = MeanOf(StoredPrices)

\* a price was appended to a series long enough for the probed period and
\* for the period 7, and both EMAs moved
C8_Witness ==
    /\ hist.op = "append"
    /\ Len(marketData) - 1 >= 7
    /\ Len(marketData) - 1 >= probePeriod
    /\ probeEma # hist.probe
    /\ emaResults.emas[7] # hist.emas[7]

====
